---------------------------- MODULE Spec2Model ----------------------------
(***************************************************************************)
(* A model of the SQL validation dashboard: the normalisation performed by *)
(* handleDataLoad, the dashboard's state (collection, selection, modal,    *)
(* confusion matrix) and the derived views computed from the collection by *)
(* SummaryCards, the status banner, the confusion matrix generator, the    *)
(* export options, the detail modal and the data table.                    *)
(*                                                                         *)
(* Numbers.  A JavaScript number is modelled as an exact rational          *)
(* num / den (den > 0) or NaN.  A score s is held in thousandths, so 0.7   *)
(* is 700 / 1.  IEEE-754 rounding is not modelled.                         *)
(*                                                                         *)
(* Strings.  A JavaScript string is a sequence of one-character strings,   *)
(* so that trim, split and the string-to-number conversion are computed    *)
(* character by character.                                                 *)
(***************************************************************************)
EXTENDS Integers, Sequences, FiniteSets, TLC

(***************************************************************************)
(* JavaScript values: a type tag t and a payload v.                        *)
(*   undefined, null   v = <<>>                                            *)
(*   number            v = <<num, den>>, the rational num / den in lowest  *)
(*                     terms with den > 0; NaN is <<0, 0>>                 *)
(*   string            v = the characters                                  *)
(*   boolean           v = the truth value                                 *)
(*   array             v = the elements, each a string's characters        *)
(***************************************************************************)
Scale == 10 * 100

Undef == [t |-> "undefined", v |-> <<>>]

JSNull == [t |-> "null", v |-> <<>>]

Rat(n, d) == [t |-> "number", v |-> <<n, d>>]

Num(n) == Rat(n, 1)

NaN == Rat(0, 0)

Str(chars) == [t |-> "string", v |-> chars]

Bool(x) == [t |-> "boolean", v |-> x]

\* a plain object that is not an array, as the value of a field
JSObject == [t |-> "object", v |-> <<>>]

Arr(elems) == [t |-> "array", v |-> elems]

(***************************************************************************)
(* typeof v === 'number' (true of NaN as well).                            *)
(***************************************************************************)
IsNumber(v) == v.t = "number"

(***************************************************************************)
(* Arithmetic and comparison on numbers, NaN propagating as in             *)
(* JavaScript: every comparison with NaN is false, Math.max with a NaN     *)
(* argument is NaN.                                                        *)
(***************************************************************************)
IsNaN(x) == x.v[2] = 0

RECURSIVE GCD(_, _)
GCD(m, n) == IF n = 0 THEN m ELSE GCD(n, m % n)

Abs(n) == IF n < 0 THEN -n ELSE n

\* the number n / d (d > 0) in lowest terms, so that equal numbers are equal values
Frac(n, d) == LET g == GCD(Abs(n), d) IN Rat(n \div g, d \div g)

NumEq(x, y) == ~IsNaN(x) /\ ~IsNaN(y) /\ x.v[1] * y.v[2] = y.v[1] * x.v[2]

NumLt(x, y) == ~IsNaN(x) /\ ~IsNaN(y) /\ x.v[1] * y.v[2] < y.v[1] * x.v[2]

NumGt(x, y) == NumLt(y, x)

NumGe(x, y) == ~IsNaN(x) /\ ~IsNaN(y) /\ x.v[1] * y.v[2] >= y.v[1] * x.v[2]

NumAdd(x, y) ==
    IF IsNaN(x) \/ IsNaN(y) THEN NaN
    ELSE Frac(x.v[1] * y.v[2] + y.v[1] * x.v[2], x.v[2] * y.v[2])

NumSub(x, y) ==
    IF IsNaN(x) \/ IsNaN(y) THEN NaN
    ELSE Frac(x.v[1] * y.v[2] - y.v[1] * x.v[2], x.v[2] * y.v[2])

\* x * (p / q) for a literal factor p / q, q > 0
NumScale(x, p, q) == IF IsNaN(x) THEN NaN ELSE Frac(x.v[1] * p, x.v[2] * q)

\* x / n for a count n >= 0; 0 / 0 is NaN (a non-zero x / 0 is an infinity,
\* which no expression of the model produces: every division is by a length
\* that is zero only when the sum divided is zero as well)
NumDiv(x, n) == IF IsNaN(x) \/ n = 0 THEN NaN ELSE Frac(x.v[1], x.v[2] * n)

MathMax(x, y) ==
    IF IsNaN(x) \/ IsNaN(y) THEN NaN
    ELSE IF NumLt(x, y) THEN y ELSE x

(***************************************************************************)
(* Truthiness: Boolean(v), and the test of v ? _ : _ , !v and v || _ .     *)
(***************************************************************************)
Truthy(v) ==
    CASE v.t = "undefined" -> FALSE
      [] v.t = "null" -> FALSE
      [] v.t = "number" -> ~IsNaN(v) /\ v.v[1] # 0
      [] v.t = "string" -> v.v # <<>>
      [] v.t = "boolean" -> v.v
      [] v.t = "array" -> TRUE
      [] v.t = "object" -> TRUE

(***************************************************************************)
(* String.prototype.trim                                                   *)
(***************************************************************************)
IsWhite(c) == c \in {" ", "\t", "\n", "\r"}

RECURSIVE TrimStart(_)
TrimStart(s) ==
    IF s # <<>> /\ IsWhite(Head(s)) THEN TrimStart(Tail(s)) ELSE s

RECURSIVE TrimEnd(_)
TrimEnd(s) ==
    IF s # <<>> /\ IsWhite(s[Len(s)]) THEN TrimEnd(SubSeq(s, 1, Len(s) - 1))
    ELSE s

Trim(s) == TrimEnd(TrimStart(s))

(***************************************************************************)
(* Number(string): the trimmed text is empty (0), or an unsigned decimal   *)
(* literal digits[.digits] or .digits, or else NaN (signs, exponents, hex  *)
(* literals and Infinity do not occur in the strings the model feeds in).  *)
(* The value is held in thousandths.                                       *)
(***************************************************************************)
Digits == {"0", "1", "2", "3", "4", "5", "6", "7", "8", "9"}

DigitVal(c) ==
    CASE c = "0" -> 0 [] c = "1" -> 1 [] c = "2" -> 2 [] c = "3" -> 3
      [] c = "4" -> 4 [] c = "5" -> 5 [] c = "6" -> 6 [] c = "7" -> 7
      [] c = "8" -> 8 [] c = "9" -> 9

RECURSIVE IntOfDigits(_, _)
IntOfDigits(s, acc) ==
    IF s = <<>> THEN acc
    ELSE IntOfDigits(Tail(s), acc * 10 + DigitVal(Head(s)))

\* the position of the first "." of s, or 0
RECURSIVE DotAt(_, _)
DotAt(s, i) ==
    IF i > Len(s) THEN 0
    ELSE IF s[i] = "." THEN i ELSE DotAt(s, i + 1)

AllDigits(s) == \A i \in 1..Len(s) : s[i] \in Digits

RECURSIVE Pow10(_)
Pow10(k) == IF k <= 0 THEN 1 ELSE 10 * Pow10(k - 1)

StringToNumber(chars) ==
    LET s == Trim(chars)
        dot == DotAt(s, 1)
        ip == IF dot = 0 THEN s ELSE SubSeq(s, 1, dot - 1)
        fp == IF dot = 0 THEN <<>> ELSE SubSeq(s, dot + 1, Len(s))
    IN  IF s = <<>> THEN Num(0)
        ELSE IF ~AllDigits(ip) \/ ~AllDigits(fp) \/ (ip = <<>> /\ fp = <<>>)
             THEN NaN
        ELSE Frac((IntOfDigits(ip, 0) * Pow10(Len(fp)) + IntOfDigits(fp, 0)) * Scale,
                  Pow10(Len(fp)))

(***************************************************************************)
(* Number(v)                                                               *)
(***************************************************************************)
ToNumber(v) ==
    CASE v.t = "undefined" -> NaN
      [] v.t = "null" -> Num(0)
      [] v.t = "number" -> v
      [] v.t = "string" -> StringToNumber(v.v)
      [] v.t = "boolean" -> IF v.v THEN Num(Scale) ELSE Num(0)
      [] v.t = "array" ->
            IF Len(v.v) = 0 THEN Num(0)
            ELSE IF Len(v.v) = 1 THEN StringToNumber(v.v[1])
            ELSE NaN
      [] v.t = "object" -> NaN

(***************************************************************************)
(* String(v).trim() === ''.  String of a number, a boolean, null or        *)
(* undefined always holds a character that is not white space; String of   *)
(* an array joins its elements with ",".                                   *)
(***************************************************************************)
RECURSIVE Join(_, _)
Join(elems, sep) ==
    IF elems = <<>> THEN <<>>
    ELSE IF Len(elems) = 1 THEN elems[1]
    ELSE elems[1] \o sep \o Join(Tail(elems), sep)

StringTrimIsEmpty(v) ==
    CASE v.t = "string" -> Trim(v.v) = <<>>
      [] v.t = "array" -> Trim(Join(v.v, <<",">>)) = <<>>
      [] OTHER -> FALSE

(***************************************************************************)
(* s.split(';').map(t => t.trim()).filter(Boolean)                         *)
(***************************************************************************)
RECURSIVE SplitAcc(_, _, _)
SplitAcc(s, sep, cur) ==
    IF s = <<>> THEN <<cur>>
    ELSE IF Head(s) = sep THEN <<cur>> \o SplitAcc(Tail(s), sep, <<>>)
    ELSE SplitAcc(Tail(s), sep, Append(cur, Head(s)))

Split(s, sep) == SplitAcc(s, sep, <<>>)

RECURSIVE MapTrim(_)
MapTrim(parts) ==
    IF parts = <<>> THEN <<>> ELSE <<Trim(Head(parts))>> \o MapTrim(Tail(parts))

RECURSIVE FilterNonEmpty(_)
FilterNonEmpty(parts) ==
    IF parts = <<>> THEN <<>>
    ELSE IF Head(parts) # <<>> THEN <<Head(parts)>> \o FilterNonEmpty(Tail(parts))
    ELSE FilterNonEmpty(Tail(parts))

(***************************************************************************)
(* Test-case objects.  An object is a function from the field names of     *)
(* SQLTestCase to values; an absent field reads as undefined.              *)
(***************************************************************************)
StringFields == {"id", "user_prompt", "expected_sql", "generated_sql", "true_label"}

MatchFields == {"codebert_match", "flane5_match"}

FlagFields == {"has_limit", "has_offset", "has_result_type", "has_cte",
               "has_order_by", "has_group_by", "has_join"}

SubScoreFields == {"codebert_intent_score", "codebert_sqlsim_score",
                   "flane5_intent_score", "flane5_sqlsim_score"}

OptionalMetricFields == {"n_gram_score", "bleu_score", "rouge_score",
                         "ngram1_precision", "ngram1_recall", "ngram1_f1",
                         "ngram2_precision", "ngram2_recall", "ngram2_f1",
                         "edit_similarity", "vocab_unknown_count",
                         "vocab_unknown_ratio", "precision", "recall",
                         "f1_score", "execution_accuracy"}

Fields == StringFields \cup MatchFields \cup FlagFields \cup SubScoreFields
          \cup OptionalMetricFields
          \cup {"syntax_score", "semantic_score", "exact_match", "token_count",
                "unknown_tokens"}

EmptyObject == [f \in Fields |-> Undef]

\* the object holding the fields of o, every other field absent
Obj(o) == [f \in Fields |-> IF f \in DOMAIN o THEN o[f] ELSE Undef]

(***************************************************************************)
(* handleDataLoad: the object built for one raw item.                      *)
(***************************************************************************)
\* A variant that tests only the falsiness of generated_sql, without the trim.
isGeneratedSqlBlankNoTrim(item) == ~Truthy(item["generated_sql"])

isGeneratedSqlBlank(item) ==
    ~Truthy(item["generated_sql"]) \/ StringTrimIsEmpty(item["generated_sql"])

\* x || 0
OrZero(x) == IF Truthy(x) THEN x ELSE Num(0)

\* v ? Number(v) : undefined
OptionalNumber(v) == IF Truthy(v) THEN ToNumber(v) ELSE Undef


\* v !== undefined ? Boolean(Number(v)) : undefined
OptionalFlag(v) == IF v.t # "undefined" THEN Bool(Truthy(ToNumber(v))) ELSE Undef

\* isGeneratedSqlBlank ? 0 : (v ? Number(v) : undefined)
SubScore(blank, v) == IF blank THEN Num(0) ELSE OptionalNumber(v)

\* A variant that keeps the empty parts of the split.
unknownTokensOfKeepEmpty(v) ==
    IF v.t = "array" THEN v
    ELSE IF v.t = "string" /\ Truthy(v)
         THEN Arr(MapTrim(Split(v.v, ";")))
    ELSE Arr(<<>>)

unknownTokensOf(v) ==
    IF v.t = "array" THEN v
    ELSE IF v.t = "string" /\ Truthy(v)
         THEN Arr(FilterNonEmpty(MapTrim(Split(v.v, ";"))))
    ELSE Arr(<<>>)

CleanItem(item) ==
    LET blank == isGeneratedSqlBlank(item)
    IN  [f \in Fields |->
          CASE f = "syntax_score" ->
                 IF blank THEN Num(0) ELSE OrZero(ToNumber(item[f]))
            [] f = "semantic_score" -> OrZero(ToNumber(item[f]))
            [] f \in MatchFields -> Bool(Truthy(item[f]))
            [] f = "exact_match" ->
                 IF Truthy(item[f]) THEN Bool(Truthy(item[f])) ELSE Undef
            [] f = "unknown_tokens" -> unknownTokensOf(item[f])
            [] f \in FlagFields -> OptionalFlag(item[f])
            [] f \in SubScoreFields -> SubScore(blank, item[f])
            [] f \in OptionalMetricFields -> OptionalNumber(item[f])
            [] OTHER -> item[f]]

(***************************************************************************)
(* The elements of a decoded array.  An element is an object, null, or a   *)
(* primitive (a number, string or boolean, every field of which reads as   *)
(* undefined and whose spread copies none of the fields modelled).         *)
(* Reading a field of null throws.                                         *)
(***************************************************************************)
ObjectItem(o) == [kind |-> "object", f |-> o]

NullItem == [kind |-> "null", f |-> EmptyObject]

PrimitiveItem == [kind |-> "primitive", f |-> EmptyObject]

Throws(newData) == \E i \in 1..Len(newData) : newData[i].kind = "null"

cleanedData(newData) == [i \in 1..Len(newData) |-> CleanItem(newData[i].f)]

(***************************************************************************)
(* FileUpload.processFile.  A decoded JSON document is an array of items   *)
(* or a single item, which is wrapped in an array.  A CSV row is an object *)
(* whose fields are the strings of its cells; the transform turns the      *)
(* three match columns into booleans and six score columns into numbers.   *)
(***************************************************************************)
JsonArray(items) == [array |-> TRUE, v |-> items]

\* a document that is one item, held as v[1]
JsonSingle(item) == [array |-> FALSE, v |-> <<item>>]

\* Array.isArray(jsonData) ? jsonData : [jsonData]
testCases(jsonData) == IF jsonData.array THEN jsonData.v ELSE <<jsonData.v[1]>>

UpperCase == <<"A", "B", "C", "D", "E", "F", "G", "H", "I", "J", "K", "L", "M",
               "N", "O", "P", "Q", "R", "S", "T", "U", "V", "W", "X", "Y", "Z">>

LowerCase == <<"a", "b", "c", "d", "e", "f", "g", "h", "i", "j", "k", "l", "m",
               "n", "o", "p", "q", "r", "s", "t", "u", "v", "w", "x", "y", "z">>

toLowerCase(chars) ==
    [i \in 1..Len(chars) |->
        IF \E k \in 1..Len(UpperCase) : UpperCase[k] = chars[i]
        THEN LowerCase[CHOOSE k \in 1..Len(UpperCase) : UpperCase[k] = chars[i]]
        ELSE chars[i]]

\* parseFloat: the number written by the longest prefix, after leading white
\* space, that is an unsigned decimal literal; NaN when there is none
parseFloat(chars) ==
    LET s == TrimStart(chars)
        IsLiteral(n) ==
            /\ \A i \in 1..n : ~IsWhite(s[i])
            /\ ~IsNaN(StringToNumber(SubSeq(s, 1, n)))
        literals == {n \in 1..Len(s) : IsLiteral(n)}
    IN  IF literals = {} THEN NaN
        ELSE StringToNumber(SubSeq(s, 1, CHOOSE n \in literals : \A m \in literals : m <= n))

CsvBooleanFields == MatchFields \cup {"exact_match"}

CsvNumericFields == {"syntax_score", "semantic_score", "n_gram_score", "bleu_score",
                     "rouge_score", "execution_accuracy"}

transform(value, field) ==
    IF field \in CsvBooleanFields THEN Bool(toLowerCase(value.v) = <<"t", "r", "u", "e">>)
    ELSE IF field \in CsvNumericFields THEN OrZero(parseFloat(value.v))
    ELSE value

\* the object Papa.parse builds for one row: the cells present, transformed
csvRow(cells) ==
    [f \in Fields |-> IF cells[f] = Undef THEN Undef ELSE transform(cells[f], f)]

(***************************************************************************)
(* The composite semantic score as every aggregating site computes it:     *)
(* the maximum of the two scorers' composites when all four sub-scores are *)
(* numbers, and 0 otherwise.                                               *)
(***************************************************************************)
HalfSum(intent, sqlsim) == NumAdd(NumScale(intent, 1, 2), NumScale(sqlsim, 1, 2))

AllFourNumbers(d) == \A f \in SubScoreFields : IsNumber(d[f])

CompositeOrZero(d) ==
    IF AllFourNumbers(d)
    THEN MathMax(HalfSum(d["codebert_intent_score"], d["codebert_sqlsim_score"]),
                 HalfSum(d["flane5_intent_score"], d["flane5_sqlsim_score"]))
    ELSE Num(0)

PassThreshold == 700

\* d.x === 0
IsZero(v) == IsNumber(v) /\ ~IsNaN(v) /\ v.v[1] = 0

\* A variant without the all-zero guard.
notAllZeroDropped(d) == TRUE

notAllZero(d) ==
    ~(IsZero(d["precision"]) /\ IsZero(d["recall"]) /\ IsZero(d["f1_score"]))

(***************************************************************************)
(* generateSampleConfusionMatrix                                           *)
(***************************************************************************)
Increment(matrix, i, j) == [matrix EXCEPT ![i][j] = matrix[i][j] + 1]

\* A variant whose last branch tests the score instead of being a plain else.
MatrixStepNoElse(matrix, test) ==
    LET semanticScore == CompositeOrZero(test)
        actualPass == notAllZero(test) /\ NumGt(semanticScore, Num(PassThreshold))
        predictedPass == NumGt(semanticScore, Num(PassThreshold))
    IN  IF actualPass /\ predictedPass THEN Increment(matrix, 1, 1)
        ELSE IF actualPass /\ ~predictedPass THEN Increment(matrix, 1, 2)
        ELSE IF ~actualPass /\ predictedPass THEN Increment(matrix, 2, 1)
        ELSE IF ~NumGt(semanticScore, Num(PassThreshold)) /\ ~IsNaN(semanticScore)
             THEN Increment(matrix, 2, 2)
        ELSE matrix

\* the body of the forEach: the matrix after one test
MatrixStep(matrix, test) ==
    LET semanticScore == CompositeOrZero(test)
        actualPass == notAllZero(test) /\ NumGt(semanticScore, Num(PassThreshold))
        predictedPass == NumGt(semanticScore, Num(PassThreshold))
    IN  IF actualPass /\ predictedPass THEN Increment(matrix, 1, 1)
        ELSE IF actualPass /\ ~predictedPass THEN Increment(matrix, 1, 2)
        ELSE IF ~actualPass /\ predictedPass THEN Increment(matrix, 2, 1)
        ELSE Increment(matrix, 2, 2)

RECURSIVE MatrixFold(_, _)
MatrixFold(testData, matrix) ==
    IF testData = <<>> THEN matrix
    ELSE MatrixFold(Tail(testData), MatrixStep(matrix, Head(testData)))

generateSampleConfusionMatrix(testData) ==
    [matrix |-> MatrixFold(testData, <<<<0, 0>>, <<0, 0>>>>),
     labels |-> <<"Pass", "Fail">>,
     title |-> "Pass/Fail Classification"]

NoMatrix == [matrix |-> <<>>, labels |-> <<>>, title |-> "null"]

(***************************************************************************)
(* Array helpers: filter (keeping the positions of the rows kept) and      *)
(* reduce.                                                                 *)
(***************************************************************************)
\* rows.filter(Keep), as the positions of the rows kept, in order
Filter(rows, Keep(_)) ==
    LET from[i \in 1..Len(rows) + 1] ==
            IF i > Len(rows) THEN <<>>
            ELSE (IF Keep(rows[i]) THEN <<i>> ELSE <<>>) \o from[i + 1]
    IN  from[1]

\* rows.reduce(Step, initial)
Reduce(rows, Step(_, _), initial) ==
    LET upTo[n \in 0..Len(rows)] ==
            IF n = 0 THEN initial ELSE Step(upTo[n - 1], rows[n])
    IN  upTo[Len(rows)]

(***************************************************************************)
(* SummaryCards.calculateSummary                                           *)
(***************************************************************************)
\* the pass rule on the stored semantic_score instead of the composite
SummaryPassesStored(d) == notAllZero(d) /\ NumGt(d["semantic_score"], Num(PassThreshold))

SummaryPasses(d) == notAllZero(d) /\ NumGt(CompositeOrZero(d), Num(PassThreshold))

AddSemantic(sum, d) ==
    IF AllFourNumbers(d)
    THEN NumAdd(sum, MathMax(HalfSum(d["codebert_intent_score"], d["codebert_sqlsim_score"]),
                             HalfSum(d["flane5_intent_score"], d["flane5_sqlsim_score"])))
    ELSE sum

AddSyntax(sum, d) == NumAdd(sum, OrZero(d["syntax_score"]))

\* data.flatMap(d => d.unknown_tokens || [])
RECURSIVE FlatTokens(_)
FlatTokens(rows) ==
    IF rows = <<>> THEN <<>>
    ELSE (IF Truthy(Head(rows)["unknown_tokens"]) THEN Head(rows)["unknown_tokens"].v
          ELSE <<>>) \o FlatTokens(Tail(rows))

\* the keys of the counting object in the order they were first assigned
RECURSIVE InsertionOrder(_, _)
InsertionOrder(tokens, seen) ==
    IF tokens = <<>> THEN seen
    ELSE IF \E i \in 1..Len(seen) : seen[i] = Head(tokens)
         THEN InsertionOrder(Tail(tokens), seen)
    ELSE InsertionOrder(Tail(tokens), Append(seen, Head(tokens)))

CountOf(tokens, tok) == Cardinality({i \in 1..Len(tokens) : tokens[i] = tok})

\* a property key that is a canonical array index: "0", or digits without a
\* leading zero (below 2^32 - 1, as every key of the model is)
IsIndexKey(tok) ==
    /\ tok # <<>>
    /\ AllDigits(tok)
    /\ (Len(tok) = 1 \/ tok[1] # "0")

\* keys.sort: a stable sort, key by key, each put before the first key it is
\* Before
InsertBy(keys, key, Before(_, _)) ==
    LET later == {p \in 1..Len(keys) : Before(key, keys[p])}
        first == CHOOSE p \in later : \A q \in later : p <= q
    IN  IF later = {} THEN Append(keys, key)
        ELSE SubSeq(keys, 1, first - 1) \o <<key>> \o SubSeq(keys, first, Len(keys))

SortBy(keys, Before(_, _)) ==
    LET upTo[n \in 0..Len(keys)] ==
            IF n = 0 THEN <<>> ELSE InsertBy(upTo[n - 1], keys[n], Before)
    IN  upTo[Len(keys)]

\* Object.entries: the index keys in ascending numeric order, then the other
\* keys in insertion order
ObjectKeys(tokens) ==
    LET order == InsertionOrder(tokens, <<>>)
        NotIndex(k) == ~IsIndexKey(k)
        Ascending(j, k) == IntOfDigits(j, 0) < IntOfDigits(k, 0)
    IN  SortBy(SelectSeq(order, IsIndexKey), Ascending) \o SelectSeq(order, NotIndex)

TopTokens == 5

topUnknownTokensOf(rows) ==
    LET tokens == FlatTokens(rows)
        MoreFrequent(j, k) == CountOf(tokens, j) > CountOf(tokens, k)
        sorted == SortBy(ObjectKeys(tokens), MoreFrequent)
    IN  SubSeq(sorted, 1, IF Len(sorted) < TopTokens THEN Len(sorted) ELSE TopTokens)

\* A variant without the early return for the empty collection.
calculateSummaryNoEarlyReturn(rows) ==
    LET totalTests == Len(rows)
        overallPasses == Len(Filter(rows, SummaryPasses))
    IN  [totalTests |-> totalTests,
         passRate |-> NumScale(NumDiv(Num(overallPasses), totalTests), 100, 1),
         averageSemanticScore |-> NumDiv(Reduce(rows, AddSemantic, Num(0)), Len(rows)),
         averageSyntaxScore |-> NumDiv(Reduce(rows, AddSyntax, Num(0)), totalTests),
         codebertPassRate |-> Num(100),
         flane5PassRate |-> Num(100),
         topUnknownTokens |-> topUnknownTokensOf(rows)]

calculateSummary(rows) ==
    IF Len(rows) = 0
    THEN [totalTests |-> 0, passRate |-> Num(0), averageSemanticScore |-> Num(0),
          averageSyntaxScore |-> Num(0), codebertPassRate |-> Num(0),
          flane5PassRate |-> Num(0), topUnknownTokens |-> <<>>]
    ELSE LET totalTests == Len(rows)
             overallPasses == Len(Filter(rows, SummaryPasses))
         IN  [totalTests |-> totalTests,
              passRate |-> NumScale(NumDiv(Num(overallPasses), totalTests), 100, 1),
              averageSemanticScore |-> NumDiv(Reduce(rows, AddSemantic, Num(0)), Len(rows)),
              averageSyntaxScore |-> NumDiv(Reduce(rows, AddSyntax, Num(0)), totalTests),
              codebertPassRate |-> Num(100),
              flane5PassRate |-> Num(100),
              topUnknownTokens |-> topUnknownTokensOf(rows)]

(***************************************************************************)
(* SummaryCards: the score distribution card.                              *)
(***************************************************************************)
semanticScores(rows) == [i \in 1..Len(rows) |-> CompositeOrZero(rows[i])]

Excellent == 900

Good == 700

Fair == 500

IsExcellent(s) == NumGe(s, Num(Excellent))

IsGood(s) == NumGe(s, Num(Good)) /\ NumLt(s, Num(Excellent))

IsFair(s) == NumGe(s, Num(Fair)) /\ NumLt(s, Num(Good))

IsPoor(s) == NumLt(s, Num(Fair))

scoreDistribution(rows) ==
    LET scores == semanticScores(rows)
    IN  [excellent |-> Len(Filter(scores, IsExcellent)),
         good |-> Len(Filter(scores, IsGood)),
         fair |-> Len(Filter(scores, IsFair)),
         poor |-> Len(Filter(scores, IsPoor))]

(***************************************************************************)
(* SQLValidationDashboard: the status banner's pass rate (before           *)
(* toFixed(1)), shown while the collection is not empty.                   *)
(***************************************************************************)
BannerPasses(d) == notAllZero(d) /\ NumGt(CompositeOrZero(d), Num(PassThreshold))

bannerPassRate(rows) ==
    NumScale(NumDiv(Num(Len(Filter(rows, BannerPasses))), Len(rows)), 100, 1)

(***************************************************************************)
(* ExportOptions                                                           *)
(***************************************************************************)
getCalculatedSemanticScore(row) == CompositeOrZero(row)

prepareExportData(rows) ==
    [i \in 1..Len(rows) |->
        [rows[i] EXCEPT !["semantic_score"] = getCalculatedSemanticScore(rows[i])]]

ReportThreshold == 750

ReportPasses(d) ==
    /\ d["codebert_match"].v \/ d["flane5_match"].v
    /\ NumGt(d["semantic_score"], Num(ReportThreshold))

ReportFails(d) == ~ReportPasses(d)

AddStoredSemantic(sum, d) == NumAdd(sum, d["semantic_score"])

AddStoredSyntax(sum, d) == NumAdd(sum, d["syntax_score"])

generateSummaryReport(rows) ==
    LET totalTests == Len(rows)
        passedTests == Len(Filter(rows, ReportPasses))
    IN  [totalTests |-> totalTests,
         passedTests |-> passedTests,
         passRate |-> NumScale(NumDiv(Num(passedTests), totalTests), 100, 1),
         avgSemantic |-> NumDiv(Reduce(rows, AddStoredSemantic, Num(0)), totalTests),
         avgSyntax |-> NumDiv(Reduce(rows, AddStoredSyntax, Num(0)), totalTests),
         failedTests |-> Filter(rows, ReportFails)]

\* the rows the "Export Failures" button writes, as positions in the collection
ExportFails(d) == ~d["codebert_match"].v \/ ~d["flane5_match"].v

exportFailures(rows) == Filter(rows, ExportFails)

(***************************************************************************)
(* TestCaseModal: the Semantic Score, CodeBERT Match and FLANE5 Match      *)
(* cards, and the badge label.                                             *)
(***************************************************************************)
ScorerComposite(testCase, intent, sqlsim) ==
    IF IsNumber(testCase[intent]) /\ IsNumber(testCase[sqlsim])
    THEN HalfSum(testCase[intent], testCase[sqlsim])
    ELSE Undef

modalSemanticScore(testCase) ==
    LET codebertScore ==
            ScorerComposite(testCase, "codebert_intent_score", "codebert_sqlsim_score")
        flane5Score ==
            ScorerComposite(testCase, "flane5_intent_score", "flane5_sqlsim_score")
    IN  IF codebertScore # Undef /\ flane5Score # Undef
        THEN MathMax(codebertScore, flane5Score)
        ELSE IF codebertScore # Undef THEN codebertScore
        ELSE IF flane5Score # Undef THEN flane5Score
        ELSE Undef

ScorerThreshold == 600

codebertPass(testCase) ==
    LET codebertScore ==
            ScorerComposite(testCase, "codebert_intent_score", "codebert_sqlsim_score")
    IN  codebertScore # Undef /\ NumGt(codebertScore, Num(ScorerThreshold))

flane5Pass(testCase) ==
    LET flane5Score ==
            ScorerComposite(testCase, "flane5_intent_score", "flane5_sqlsim_score")
    IN  flane5Score # Undef /\ NumGt(flane5Score, Num(ScorerThreshold))

getScoreBadgeVariant(score) ==
    IF NumGe(score, Num(Excellent)) THEN "bg-metric-excellent"
    ELSE IF NumGe(score, Num(Good)) THEN "bg-metric-good"
    ELSE IF NumGe(score, Num(Fair)) THEN "bg-metric-fair"
    ELSE "bg-metric-poor"

scoreLabel(score) ==
    IF NumGe(score, Num(Excellent)) THEN "Excellent"
    ELSE IF NumGe(score, Num(Good)) THEN "Good"
    ELSE IF NumGe(score, Num(Fair)) THEN "Fair"
    ELSE "Poor"

(***************************************************************************)
(* ExportOptions: the rows handed to Papa.unparse by downloadCSV, and the  *)
(* text written by downloadJSON.  JSON.stringify leaves out the members    *)
(* whose value is undefined and writes NaN as null; the text of an array   *)
(* of objects is held as the sequence of the objects' sets of members.     *)
(***************************************************************************)
downloadCSV(rows) == prepareExportData(rows)

JSONValue(v) == IF IsNumber(v) /\ IsNaN(v) THEN JSNull ELSE v

JSONStringify(exportData) ==
    [i \in 1..Len(exportData) |->
        {<<f, JSONValue(exportData[i][f])>> : f \in {g \in Fields : exportData[i][g] # Undef}}]

downloadJSON(exportData) == JSONStringify(exportData)

\* JSON.parse of such a text: an array of objects
JSONParse(text) ==
    JsonArray([i \in 1..Len(text) |->
        ObjectItem([f \in Fields |->
            IF \E m \in text[i] : m[1] = f
            THEN (CHOOSE m \in text[i] : m[1] = f)[2]
            ELSE Undef])])

(***************************************************************************)
(* TestCaseModal: the Confidence Score card.                               *)
(***************************************************************************)
\* typeof a === 'number' ? a : undefined, and the best of two such values
bestOf(a, b) ==
    IF IsNumber(a) /\ IsNumber(b) THEN MathMax(a, b)
    ELSE IF IsNumber(a) THEN a
    ELSE IF IsNumber(b) THEN b
    ELSE Num(0)

vocabScoreOf(testCase) ==
    IF IsNumber(testCase["vocab_unknown_count"]) /\ IsNumber(testCase["vocab_unknown_ratio"])
    THEN LET vocabScore == NumSub(Num(Scale), testCase["vocab_unknown_ratio"])
         IN  IF NumLt(vocabScore, Num(0)) THEN Num(0) ELSE vocabScore
    ELSE Num(0)

NumberOrZero(v) == IF IsNumber(v) THEN v ELSE Num(0)

confidence(testCase) ==
    LET bestIntent == bestOf(testCase["codebert_intent_score"],
                             testCase["flane5_intent_score"])
        bestSim == bestOf(testCase["codebert_sqlsim_score"],
                          testCase["flane5_sqlsim_score"])
        vocabScore == vocabScoreOf(testCase)
        syntaxScore == NumberOrZero(testCase["syntax_score"])
        f1Score == NumberOrZero(testCase["f1_score"])
    IN  NumAdd(NumAdd(NumAdd(NumAdd(NumScale(bestIntent, 25, 100),
                                    NumScale(bestSim, 25, 100)),
                             NumScale(vocabScore, 20, 100)),
                      NumScale(syntaxScore, 15, 100)),
               NumScale(f1Score, 15, 100))

(***************************************************************************)
(* DataTable: the CodeBERT Match and FLANE5 Match cells of a row, which    *)
(* render a PASS badge whatever the row holds.                             *)
(***************************************************************************)
tableCodebertMatchCell(row) == "PASS"

tableFlane5MatchCell(row) == "PASS"

(***************************************************************************)
(* DataTable: the filter state, the rows shown and their order.  A row of  *)
(* the table is a position of the collection.                              *)
(***************************************************************************)
\* filters as useState creates it; scoreRange is [0, 1] and no control sets it
initialFilters == [searchTerm |-> <<>>, passFailFilter |-> "all"]

\* sortState as useState creates it; no header of the table calls handleSort
sortState == [column |-> "id", direction |-> "asc"]

\* String.prototype.includes
includes(chars, searchString) ==
    \E k \in 0..Len(chars) - Len(searchString) :
        SubSeq(chars, k + 1, k + Len(searchString)) = searchString

\* the order of the characters used in ids: digits, then lower-case letters
Collation == <<"0", "1", "2", "3", "4", "5", "6", "7", "8", "9">> \o LowerCase

Rank(c) == CHOOSE k \in 1..Len(Collation) : Collation[k] = c

\* String.prototype.localeCompare, as -1, 0 or 1
RECURSIVE localeCompare(_, _)
localeCompare(a, b) ==
    IF a = <<>> /\ b = <<>> THEN 0
    ELSE IF a = <<>> THEN -1
    ELSE IF b = <<>> THEN 1
    ELSE IF Rank(Head(a)) < Rank(Head(b)) THEN -1
    ELSE IF Rank(Head(a)) > Rank(Head(b)) THEN 1
    ELSE localeCompare(Tail(a), Tail(b))

\* row.semantic_score < scoreRange[0] || row.semantic_score > scoreRange[1]
\* is false
InScoreRange(row) ==
    ~(NumLt(row["semantic_score"], Num(0)) \/ NumGt(row["semantic_score"], Num(Scale)))

\* the search filter: the term is empty, or id, user_prompt or true_label
\* holds it, case aside
matchesSearch(row, searchTerm) ==
    searchTerm # <<>> =>
        LET searchLower == toLowerCase(searchTerm)
        IN  \/ includes(toLowerCase(row["id"].v), searchLower)
            \/ includes(toLowerCase(row["user_prompt"].v), searchLower)
            \/ includes(toLowerCase(row["true_label"].v), searchLower)

\* the callback of data.filter
rowShown(row, fl) ==
    IF ~matchesSearch(row, fl.searchTerm) THEN FALSE
    ELSE IF fl.passFailFilter = "pass" THEN TRUE
    ELSE IF fl.passFailFilter = "fail" THEN FALSE
    ELSE InScoreRange(row)

\* the comparator of filtered.sort, as -1, 0 or 1
compareRows(a, b, st) ==
    LET aVal == a[st.column]
        bVal == b[st.column]
        asc == st.direction = "asc"
    IN  IF aVal.t = "string" /\ bVal.t = "string"
        THEN IF asc THEN localeCompare(aVal.v, bVal.v) ELSE localeCompare(bVal.v, aVal.v)
        ELSE IF IsNumber(aVal) /\ IsNumber(bVal)
        THEN IF NumLt(aVal, bVal) THEN (IF asc THEN -1 ELSE 1)
             ELSE IF NumLt(bVal, aVal) THEN (IF asc THEN 1 ELSE -1)
             ELSE 0
        ELSE IF aVal.t = "boolean" /\ bVal.t = "boolean"
        THEN IF aVal.v = bVal.v THEN 0
             ELSE IF bVal.v THEN (IF asc THEN -1 ELSE 1)
             ELSE (IF asc THEN 1 ELSE -1)
        ELSE 0

\* A variant that sorts the collection itself and filters it afterwards.
filteredAndSortedDataInPlace(d, fl) ==
    LET Before(i, j) == compareRows(d[i], d[j], sortState) < 0
        order == SortBy([i \in 1..Len(d) |-> i], Before)
        sorted == [k \in 1..Len(d) |-> d[order[k]]]
        Shown(row) == rowShown(row, fl)
    IN  [data |-> sorted, filtered |-> Filter(sorted, Shown)]

\* useMemo's callback: data.filter builds a new array, which is then sorted;
\* data is the collection after the call, filtered the rows shown, in order
filteredAndSortedData(d, fl) ==
    LET Shown(row) == rowShown(row, fl)
        filtered == Filter(d, Shown)
        Before(i, j) == compareRows(d[i], d[j], sortState) < 0
    IN  [data |-> d, filtered |-> SortBy(filtered, Before)]

\* expandedRows.has(row.id)
isExpanded(row, expanded) == row["id"] \in expanded

(***************************************************************************)
(* The dashboard.  source records the decoded array (handleDataLoad's      *)
(* parameter newData) that the collection held was built from, so that the *)
(* collection can be compared with it; it is empty while no collection is  *)
(* held.                                                                   *)
(***************************************************************************)
VARIABLES data, selectedTestCase, isModalOpen, confusionMatrixData, loading, toast,
          source,
          \* DataTable: the filter controls and the ids of the expanded rows
          filters, expandedRows,
          \* ExportOptions: the rows of the last file written
          download,
          \* FileUpload: the flag, the file processFile is working on, and how
          \* often that call of processFile has invoked each callback
          uploading, file, onDataLoadCalls, onErrorCalls

fileVars == <<uploading, file, onDataLoadCalls, onErrorCalls>>

vars == <<data, selectedTestCase, isModalOpen, confusionMatrixData, loading, toast,
          source, filters, expandedRows, download, fileVars>>

NoTestCase == [f \in Fields |-> JSNull]

NoFile == [ext |-> "none", readable |-> FALSE, valid |-> FALSE, errors |-> 0,
           content |-> JsonArray(<<>>)]

Init ==
    /\ data = <<>>
    /\ selectedTestCase = NoTestCase
    /\ isModalOpen = FALSE
    /\ confusionMatrixData = NoMatrix
    /\ loading = FALSE
    /\ toast = "none"
    /\ source = <<>>
    /\ filters = initialFilters
    /\ expandedRows = {}
    /\ download = <<>>
    /\ uploading = FALSE
    /\ file = NoFile
    /\ onDataLoadCalls = 0
    /\ onErrorCalls = 0

\* DataTable is rendered only while the collection is not empty: its state
\* is created anew when a collection follows an empty one
tableAfter(rows) ==
    IF Len(rows) = 0
    THEN filters' = initialFilters /\ expandedRows' = {}
    ELSE UNCHANGED <<filters, expandedRows>>

\* a load that would add the new records to the collection already held
handleDataLoadAppend(newData) ==
    /\ IF Throws(newData)
       THEN /\ toast' = "Error processing data"
            /\ UNCHANGED <<data, confusionMatrixData, source, filters, expandedRows>>
       ELSE /\ data' = data \o cleanedData(newData)
            /\ source' = newData
            /\ toast' = "Data loaded successfully!"
            /\ confusionMatrixData' = generateSampleConfusionMatrix(data')
            /\ tableAfter(data')
    /\ loading' = FALSE
    /\ UNCHANGED <<selectedTestCase, isModalOpen, download>>

handleDataLoad(newData) ==
    /\ IF Throws(newData)
       THEN /\ toast' = "Error processing data"
            /\ UNCHANGED <<data, confusionMatrixData, source, filters, expandedRows>>
       ELSE /\ data' = cleanedData(newData)
            /\ source' = newData
            /\ toast' = "Data loaded successfully!"
            /\ confusionMatrixData' = generateSampleConfusionMatrix(data')
            /\ tableAfter(data')
    /\ loading' = FALSE
    /\ UNCHANGED <<selectedTestCase, isModalOpen, download>>

handleError ==
    /\ toast' = "Upload Error"
    /\ UNCHANGED <<data, selectedTestCase, isModalOpen, confusionMatrixData, loading,
                   source, filters, expandedRows, download>>

\* the rows of the table, in the order shown
shownRows == filteredAndSortedData(data, filters).filtered

\* the View button of the row of the table that shows data[i]
handleTestCaseClick(i) ==
    /\ \E k \in 1..Len(shownRows) : shownRows[k] = i
    /\ selectedTestCase' = data[i]
    /\ isModalOpen' = TRUE
    /\ UNCHANGED <<data, confusionMatrixData, loading, toast, source, filters,
                   expandedRows, download, fileVars>>

\* a clear that would leave the confusion matrix of the cleared collection
handleRefreshKeepsMatrix ==
    /\ Len(data) # 0
    /\ data' = <<>>
    /\ selectedTestCase' = NoTestCase
    /\ toast' = "Dashboard cleared"
    /\ source' = <<>>
    /\ tableAfter(data')
    /\ UNCHANGED <<confusionMatrixData, isModalOpen, loading, download, fileVars>>

handleRefresh ==
    /\ Len(data) # 0
    /\ data' = <<>>
    /\ selectedTestCase' = NoTestCase
    /\ confusionMatrixData' = NoMatrix
    /\ toast' = "Dashboard cleared"
    /\ source' = <<>>
    /\ tableAfter(data')
    /\ UNCHANGED <<isModalOpen, loading, download, fileVars>>

onClose ==
    /\ isModalOpen
    /\ selectedTestCase # NoTestCase
    /\ isModalOpen' = FALSE
    /\ selectedTestCase' = NoTestCase
    /\ UNCHANGED <<data, confusionMatrixData, loading, toast, source, filters,
                   expandedRows, download, fileVars>>

\* the two FileUpload instances: the one shown while the collection is empty,
\* and the "Upload Additional Data" card shown while it is not
uploadFirst(newData) == Len(data) = 0 /\ handleDataLoad(newData) /\ UNCHANGED fileVars

uploadAdditional(newData) == Len(data) > 0 /\ handleDataLoad(newData) /\ UNCHANGED fileVars

(***************************************************************************)
(* The decoded files fed to the dashboard.                                 *)
(***************************************************************************)
MaxRows == 2

T(id) == Str(<<"t", id>>)

Sql == Str(<<"S", "E", "L", "E", "C", "T", " ", "1">>)

GeneratedSqlValues == {Undef, Str(<<>>), Str(<<" ", " ">>), Sql}

\* (codebert intent, codebert sqlsim, flane5 intent, flane5 sqlsim)
SubScoreValues ==
    { <<Num(900), Num(900), Num(800), Num(800)>>,
      <<Num(900), Num(900), Undef, Undef>>,
      <<Undef, Num(700), Num(800), Num(800)>>,
      <<Undef, Undef, Undef, Undef>>,
      <<Str(<<"0", ".", "8">>), Str(<<"0", ".", "8">>), Str(<<"0", ".", "9">>), Str(<<"1">>)>>,
      <<Str(<<"n", "/", "a">>), Num(900), Num(800), Num(800)>>,
      <<Num(600), Num(700), Num(500), Num(500)>>,
      <<Num(700), Num(700), Num(600), Num(600)>>,
      <<Num(0), Num(0), Str(<<"0">>), Str(<<"0">>)>>,
      <<Num(500), Num(500), Num(400), Num(1000)>>,
      <<Num(900), Num(900), Num(500), Num(500)>> }

\* (precision, recall, f1_score)
MetricValues ==
    { <<Undef, Undef, Undef>>,
      <<Num(0), Num(0), Num(0)>>,
      <<Str(<<"0">>), Str(<<"0">>), Str(<<"0", ".", "0">>)>>,
      <<Num(800), Num(0), Str(<<"0">>)>> }

\* (codebert_match, flane5_match)
MatchValues == { <<Bool(TRUE), Bool(TRUE)>>, <<Bool(TRUE), Bool(FALSE)>>,
                 <<Undef, Bool(FALSE)>> }

\* (syntax_score, semantic_score)
ScoreValues == { <<Num(1000), Num(800)>>, <<Str(<<"0", ".", "5">>), Num(720)>>,
                 <<Undef, Undef>> }

RawRow(g, sub, prf, m, sc) ==
    Obj([id |-> T("1"), user_prompt |-> Str(<<"p">>), expected_sql |-> Sql,
         true_label |-> Str(<<"o", "k">>), generated_sql |-> g,
         codebert_intent_score |-> sub[1], codebert_sqlsim_score |-> sub[2],
         flane5_intent_score |-> sub[3], flane5_sqlsim_score |-> sub[4],
         precision |-> prf[1], recall |-> prf[2], f1_score |-> prf[3],
         codebert_match |-> m[1], flane5_match |-> m[2],
         syntax_score |-> sc[1], semantic_score |-> sc[2]])

WideRows ==
    { RawRow(g, sub, prf, m, sc) :
        g \in GeneratedSqlValues, sub \in SubScoreValues, prf \in MetricValues,
        m \in MatchValues, sc \in ScoreValues }

High == <<Num(900), Num(900), Num(800), Num(800)>>

Positive == <<Num(800), Num(0), Str(<<"0">>)>>

CoreRows ==
    { RawRow(Sql, High, Positive, <<Bool(TRUE), Bool(TRUE)>>, <<Num(1000), Num(800)>>),
      RawRow(Sql, <<Num(900), Num(900), Undef, Undef>>, Positive,
             <<Bool(TRUE), Bool(FALSE)>>, <<Num(1000), Num(800)>>),
      RawRow(Sql, High, <<Str(<<"0">>), Str(<<"0">>), Str(<<"0", ".", "0">>)>>,
             <<Undef, Bool(FALSE)>>, <<Str(<<"0", ".", "5">>), Num(720)>>),
      RawRow(Str(<<" ", " ">>), High, Positive, <<Bool(TRUE), Bool(TRUE)>>,
             <<Num(1000), Num(800)>>),
      RawRow(Sql, <<Num(600), Num(700), Num(500), Num(500)>>, <<Undef, Undef, Undef>>,
             <<Bool(TRUE), Bool(TRUE)>>, <<Undef, Undef>>),
      RawRow(Sql, <<Str(<<"n", "/", "a">>), Num(900), Num(800), Num(800)>>, Positive,
             <<Bool(TRUE), Bool(TRUE)>>, <<Num(1000), Num(800)>>) }

CoreItems == {ObjectItem(r) : r \in CoreRows} \cup {NullItem, PrimitiveItem}

SeqsUpTo(S, n) == UNION {[1..k -> S] : k \in 0..n}

CoreFiles == SeqsUpTo(CoreItems, MaxRows)

DashRows ==
    { RawRow(Sql, High, Positive, <<Bool(TRUE), Bool(TRUE)>>, <<Num(1000), Num(800)>>),
      RawRow(Sql, High, <<Str(<<"0">>), Str(<<"0">>), Str(<<"0", ".", "0">>)>>,
             <<Undef, Bool(FALSE)>>, <<Str(<<"0", ".", "5">>), Num(720)>>),
      RawRow(Str(<<" ", " ">>), High, Positive, <<Bool(TRUE), Bool(TRUE)>>,
             <<Num(1000), Num(800)>>) }

DashFiles == SeqsUpTo({ObjectItem(r) : r \in DashRows} \cup {NullItem}, MaxRows)

WideFiles == {<<ObjectItem(r)>> : r \in WideRows} \cup CoreFiles

(***************************************************************************)
(* The files fed to the dashboard to exercise the field-by-field           *)
(* normalisation: JSON documents and CSV files whose rows vary the unknown *)
(* tokens, the boolean fields, the vocabulary fields, the optional metrics *)
(* and the identity fields.                                                *)
(***************************************************************************)
TokenValues ==
    { Undef, JSNull, Str(<<>>), Num(3), Bool(TRUE), JSObject, Arr(<<>>),
      Str(<<"x", ";", " ", "y", " ", ";", "z">>), Str(<<" ", ";", " ", ";">>), Str(<<"b", ";", "1", "0", ";", "2", ";", "b">>),
      Arr(<<<<"b">>, <<"1", "0">>, <<"2">>>>),
      Arr(<<<<"x">>, <<"y">>, <<"x">>>>) }

BooleanValues ==
    { Undef, JSNull, Bool(TRUE), Bool(FALSE), Num(Scale), Num(0),
      Str(<<"t", "r", "u", "e">>), Str(<<"T", "R", "U", "E">>), Str(<<"f", "a", "l", "s", "e">>), Str(<<"0">>), Str(<<"1">>) }

\* (vocab_unknown_count, vocab_unknown_ratio, f1_score)
VocabValues ==
    { <<Undef, Undef, Undef>>,
      <<Num(3 * Scale), Num(200), Num(800)>>,
      <<Undef, Num(200), Num(800)>>,
      <<Num(0), Num(0), Num(0)>>,
      <<Str(<<"2">>), Str(<<"0", ".", "2", "5">>), Str(<<"0", ".", "5">>)>>,
      <<Num(9 * Scale), Num(1500), Undef>> }

\* the value of every other optional metric
OptionalValues == { Undef, Num(0), Num(500), Str(<<"0">>), Str(<<"0", ".", "5">>), Str(<<"n", "/", "a">>), Str(<<>>) }

PartialScores ==
    { High,
      <<Num(900), Undef, Undef, Num(600)>>,
      <<Str(<<"0">>), Num(900), Undef, Undef>> }

BooleanFields == FlagFields \cup MatchFields \cup {"exact_match"}

VocabFields == {"vocab_unknown_count", "vocab_unknown_ratio", "f1_score"}

NormRow(tok, flag, voc, opt, sub) ==
    [f \in Fields |->
        CASE f = "id" -> T("1")
          [] f = "user_prompt" -> Str(<<"p">>)
          [] f = "expected_sql" -> Sql
          [] f = "true_label" -> Str(<<"o", "k">>)
          [] f = "generated_sql" -> Sql
          [] f = "syntax_score" -> Num(Scale)
          [] f = "semantic_score" -> Num(800)
          [] f = "token_count" -> Undef
          [] f = "unknown_tokens" -> tok
          [] f \in BooleanFields -> flag
          [] f = "vocab_unknown_count" -> voc[1]
          [] f = "vocab_unknown_ratio" -> voc[2]
          [] f = "f1_score" -> voc[3]
          [] f = "codebert_intent_score" -> sub[1]
          [] f = "codebert_sqlsim_score" -> sub[2]
          [] f = "flane5_intent_score" -> sub[3]
          [] f = "flane5_sqlsim_score" -> sub[4]
          [] OTHER -> opt]

BaseRow == NormRow(Arr(<<>>), Bool(TRUE), <<Num(3 * Scale), Num(200), Num(800)>>,
                   Num(500), High)

\* a row of BaseRow's values without the fields of S
Without(row, S) == [f \in Fields |-> IF f \in S THEN Undef ELSE row[f]]

RequiredFields == {"id", "user_prompt", "expected_sql", "true_label"}

NormRows ==
    { NormRow(tok, flag, <<Num(3 * Scale), Num(200), Num(800)>>, Num(500), High) :
        tok \in TokenValues, flag \in BooleanValues }
    \cup { NormRow(Arr(<<>>), Bool(TRUE), voc, opt, sub) :
              voc \in VocabValues, opt \in OptionalValues, sub \in PartialScores }
    \cup { Without(BaseRow, {f}) : f \in RequiredFields }
    \cup { Without(BaseRow, Fields \ RequiredFields) }

TokenRows ==
    { NormRow(tok, Bool(TRUE), <<Undef, Undef, Undef>>, Undef, sub) :
        tok \in { Arr(<<<<"b">>, <<"1", "0">>, <<"2">>>>), Arr(<<<<"x">>, <<"y">>, <<"x">>>>),
                  Str(<<"b", ";", "1", "0", ";", "2", ";", "b">>) },
        sub \in PartialScores }

NormItems == {ObjectItem(r) : r \in TokenRows} \cup {NullItem, PrimitiveItem}

\* the decoded JSON documents
NormJsonDocs ==
    { JsonArray(<<ObjectItem(r)>>) : r \in NormRows }
    \cup { JsonArray(items) : items \in SeqsUpTo(NormItems, MaxRows) }
    \cup { JsonSingle(item) : item \in NormItems }

\* the cells of a CSV row: every cell present is a string
CsvText(cells) ==
    [f \in Fields |->
        IF f \in {"syntax_score", "semantic_score"} THEN Str(<<"0", ".", "9">>) ELSE cells[f]]

CsvCells ==
    { CsvText(NormRow(Str(<<"x", ";", " ", "y", " ", ";", "z">>), flag, <<Str(<<"2">>), Str(<<"0", ".", "2", "5">>), Str(<<"0", ".", "5">>)>>, opt, <<Str(<<"0", ".", "9">>), Str(<<"0", ".", "9">>), Str(<<"0", ".", "8">>), Str(<<"0", ".", "8">>)>>)) :
        flag \in {Str(<<"t", "r", "u", "e">>), Str(<<"T", "R", "U", "E">>), Str(<<"f", "a", "l", "s", "e">>), Str(<<"1">>)},
        opt \in {Str(<<"0">>), Str(<<"0", ".", "5">>), Str(<<>>)} }

\* the rows Papa.parse hands to onDataLoad
CsvFiles == { <<ObjectItem(csvRow(c))>> : c \in CsvCells }

(***************************************************************************)
(* Spec: the dashboard under every interleaving of uploads, clears, row    *)
(* clicks and modal closes.                                                *)
(***************************************************************************)
Next ==
    \/ \E newData \in DashFiles : uploadFirst(newData)
    \/ \E newData \in DashFiles : uploadAdditional(newData)
    \/ \E i \in 1..MaxRows + 1 : handleTestCaseClick(i)
    \/ handleRefresh
    \/ onClose

Spec == Init /\ [][Next]_vars

(***************************************************************************)
(* SpecLoad: the dashboard loaded from empty, over a wider set of files.   *)
(***************************************************************************)
NextLoad ==
    \/ \E newData \in WideFiles : uploadFirst(newData)
    \/ handleRefresh

SpecLoad == Init /\ [][NextLoad]_vars


(***************************************************************************)
(* SpecNormalize: files that exercise the normalisation of each field,     *)
(* loaded through both branches of processFile, opened in the detail       *)
(* modal, exported as JSON and loaded again.                               *)
(***************************************************************************)
uploadJson(jsonData) ==
    /\ Len(data) = 0
    /\ handleDataLoad(testCases(jsonData))
    /\ UNCHANGED fileVars

uploadCsv(rows) ==
    /\ Len(data) = 0
    /\ handleDataLoad(rows)
    /\ UNCHANGED fileVars

\* the JSON export of the collection, uploaded as additional data
reimport ==
    /\ Len(data) > 0
    /\ handleDataLoad(testCases(JSONParse(downloadJSON(data))))
    /\ UNCHANGED fileVars

NextNormalize ==
    \/ \E jsonData \in NormJsonDocs : uploadJson(jsonData)
    \/ \E rows \in CsvFiles : uploadCsv(rows)
    \/ reimport
    \/ \E i \in 1..MaxRows : handleTestCaseClick(i)
    \/ handleRefresh
    \/ onClose

SpecNormalize == Init /\ [][NextNormalize]_vars

(***************************************************************************)
(* SpecTable: the dashboard with the controls of the table and the export  *)
(* of the collection: collections whose ids repeat or are out of order,    *)
(* loaded from empty, searched, filtered, expanded row by row, opened in   *)
(* the modal, exported and cleared.                                        *)
(***************************************************************************)
\* the search box: setFilters, then the rows shown are computed anew
setSearchTerm(value) ==
    /\ Len(data) > 0
    /\ filters' = [filters EXCEPT !.searchTerm = value]
    /\ data' = filteredAndSortedData(data, filters').data
    /\ UNCHANGED <<selectedTestCase, isModalOpen, confusionMatrixData, loading, toast,
                   source, expandedRows, download, fileVars>>

\* the pass/fail select: setFilters, then the rows shown are computed anew
setPassFailFilter(value) ==
    /\ Len(data) > 0
    /\ filters' = [filters EXCEPT !.passFailFilter = value]
    /\ data' = filteredAndSortedData(data, filters').data
    /\ UNCHANGED <<selectedTestCase, isModalOpen, confusionMatrixData, loading, toast,
                   source, expandedRows, download, fileVars>>

toggleRowExpansion(id) ==
    /\ expandedRows' = IF id \in expandedRows THEN expandedRows \ {id}
                       ELSE expandedRows \cup {id}
    /\ UNCHANGED <<data, selectedTestCase, isModalOpen, confusionMatrixData, loading,
                   toast, source, filters, download, fileVars>>

\* the chevron button of the row of the table that shows data[i]
expandClick(i) ==
    /\ \E k \in 1..Len(shownRows) : shownRows[k] = i
    /\ toggleRowExpansion(data[i]["id"])

\* the "Export CSV" button of the "All Data" column
exportAllCSV ==
    /\ Len(data) > 0
    /\ download' = downloadCSV(data)
    /\ UNCHANGED <<data, selectedTestCase, isModalOpen, confusionMatrixData, loading,
                   toast, source, filters, expandedRows, fileVars>>

TableRows ==
    { [RawRow(Sql, High, Positive, <<Bool(TRUE), Bool(TRUE)>>, <<Num(1000), Num(800)>>)
          EXCEPT !["id"] = T("a")],
      [RawRow(Sql, <<Num(500), Num(500), Num(400), Num(400)>>, Positive,
              <<Bool(TRUE), Bool(FALSE)>>, <<Num(1000), Num(300)>>)
          EXCEPT !["id"] = T("b")] }

TableFiles == SeqsUpTo({ObjectItem(r) : r \in TableRows}, MaxRows)

SearchTerms == {<<>>, <<"A">>}

PassFailValues == {"all", "pass", "fail"}

NextTable ==
    \/ \E newData \in TableFiles : uploadFirst(newData)
    \/ \E value \in SearchTerms : setSearchTerm(value)
    \/ \E value \in PassFailValues : setPassFailFilter(value)
    \/ \E i \in 1..MaxRows : expandClick(i)
    \/ \E i \in 1..MaxRows : handleTestCaseClick(i)
    \/ onClose
    \/ exportAllCSV
    \/ handleRefresh

SpecTable == Init /\ [][NextTable]_vars

(***************************************************************************)
(* SpecUpload: files handed to FileUpload.processFile, one at a time (the  *)
(* drop zone takes no file while uploading is set).  processFile sets the  *)
(* flag and waits for file.text(); what follows the wait runs in one go:   *)
(* the branch on the file name, the callback, and the finally block.  A    *)
(* file is its extension, whether its text can be read, whether the text   *)
(* is well-formed JSON, the number of errors Papa.parse reports, and the   *)
(* value the text decodes to.                                              *)
(***************************************************************************)
\* A variant whose complete callback goes on after reporting the errors.
callbacksOfNoReturn(f) ==
    IF ~f.readable THEN <<"onError">>
    ELSE IF f.ext = "json" THEN (IF f.valid THEN <<"onDataLoad">> ELSE <<"onError">>)
    ELSE IF f.ext = "csv"
    THEN (IF f.errors > 0 THEN <<"onError", "onDataLoad">> ELSE <<"onDataLoad">>)
    ELSE <<"onError">>

\* the callbacks invoked once file.text() has settled, in order: a rejected
\* read and a JSON.parse that throws end in the catch block; Papa.parse
\* calls complete before it returns, and its error callback never, for a
\* string
callbacksOf(f) ==
    IF ~f.readable THEN <<"onError">>
    ELSE IF f.ext = "json" THEN (IF f.valid THEN <<"onDataLoad">> ELSE <<"onError">>)
    ELSE IF f.ext = "csv"
    THEN (IF f.errors > 0 THEN <<"onError">> ELSE <<"onDataLoad">>)
    ELSE <<"onError">>

\* the argument of onDataLoad: testCases, or results.data
newDataOf(f) == IF f.ext = "json" THEN testCases(f.content) ELSE f.content.v

\* processFile up to the await
processFile(f) ==
    /\ ~uploading
    /\ uploading' = TRUE
    /\ file' = f
    /\ onDataLoadCalls' = 0
    /\ onErrorCalls' = 0
    /\ UNCHANGED <<data, selectedTestCase, isModalOpen, confusionMatrixData, loading,
                   toast, source, filters, expandedRows, download>>

\* processFile from the await to the end of the finally block
afterFileText ==
    /\ uploading
    /\ LET calls == callbacksOf(file)
           loads == Cardinality({k \in 1..Len(calls) : calls[k] = "onDataLoad"})
           errors == Cardinality({k \in 1..Len(calls) : calls[k] = "onError"})
       IN  /\ onDataLoadCalls' = onDataLoadCalls + loads
           /\ onErrorCalls' = onErrorCalls + errors
           /\ IF loads > 0 THEN handleDataLoad(newDataOf(file))
              ELSE IF errors > 0 THEN handleError
              ELSE UNCHANGED <<data, selectedTestCase, isModalOpen, confusionMatrixData,
                               loading, toast, source, filters, expandedRows, download>>
    /\ uploading' = FALSE
    /\ UNCHANGED file

JsonFile(valid, content) ==
    [ext |-> "json", readable |-> TRUE, valid |-> valid, errors |-> 0, content |-> content]

CsvFile(errors, rows) ==
    [ext |-> "csv", readable |-> TRUE, valid |-> FALSE, errors |-> errors,
     content |-> JsonArray(rows)]

\* the cells of the one row of the CSV files
UploadCells ==
    CsvText(NormRow(Str(<<"x", ";", "y">>), Str(<<"T", "R", "U", "E">>),
                    <<Str(<<"2">>), Str(<<"0", ".", "2", "5">>), Str(<<"0", ".", "5">>)>>,
                    Str(<<"0", ".", "5">>),
                    <<Str(<<"0", ".", "9">>), Str(<<"0", ".", "9">>),
                      Str(<<"0", ".", "8">>), Str(<<"0", ".", "8">>)>>))

UploadFiles ==
    { JsonFile(TRUE, JsonArray(<<ObjectItem(r)>>)) : r \in TableRows }
    \cup { JsonFile(TRUE, JsonSingle(ObjectItem(r))) : r \in TableRows }
    \cup { JsonFile(TRUE, JsonArray(<<NullItem>>)), JsonFile(TRUE, JsonArray(<<>>)),
           JsonFile(FALSE, JsonArray(<<>>)),
           [JsonFile(TRUE, JsonArray(<<>>)) EXCEPT !.readable = FALSE],
           [JsonFile(FALSE, JsonArray(<<>>)) EXCEPT !.ext = "txt"],
           CsvFile(0, <<ObjectItem(csvRow(UploadCells))>>),
           CsvFile(1, <<ObjectItem(csvRow(UploadCells))>>),
           CsvFile(1, <<>>) }

NextUpload ==
    \/ \E f \in UploadFiles : processFile(f)
    \/ afterFileText

\* the wait for file.text() ends: the promise settles and what follows it runs
SpecUpload == Init /\ [][NextUpload]_vars /\ WF_vars(afterFileText)

(***************************************************************************)
(* What the claims speak of, stated from their own words.                  *)
(***************************************************************************)
\* a collection is held (it was built from source)
Loaded == Len(data) > 0

Rows == 1..Len(data)

Positions(indices) == {indices[k] : k \in 1..Len(indices)}

Count(S) == Cardinality(S)

\* generated_sql is absent, empty or only white space
RawSqlBlank(item) ==
    \/ item["generated_sql"] = Undef
    \/ /\ item["generated_sql"].t = "string"
       /\ \A k \in 1..Len(item["generated_sql"].v) : item["generated_sql"].v[k] = " "

ZeroedFields == {"syntax_score"} \cup SubScoreFields

\* precision, recall and f1_score are all exactly 0
MetricsAllZero(d) == \A f \in {"precision", "recall", "f1_score"} : d[f] = Num(0)

\* a scorer's composite: 0.5 * intent + 0.5 * sqlSim when both are present
ClaimedComposite(d, intent, sqlsim) ==
    IF d[intent] # Undef /\ d[sqlsim] # Undef
    THEN NumScale(NumAdd(d[intent], d[sqlsim]), 1, 2)
    ELSE Undef

\* the maximum over the scorers that are complete, 0 when neither is
ClaimedSemanticScore(d) ==
    LET a == ClaimedComposite(d, "codebert_intent_score", "codebert_sqlsim_score")
        b == ClaimedComposite(d, "flane5_intent_score", "flane5_sqlsim_score")
    IN  IF a # Undef /\ b # Undef THEN MathMax(a, b)
        ELSE IF a # Undef THEN a
        ELSE IF b # Undef THEN b
        ELSE Num(0)

ClaimedOverallPass(d) ==
    ~MetricsAllZero(d) /\ NumGt(ClaimedSemanticScore(d), Num(700))

ClaimedScorerVerdict(d, intent, sqlsim) ==
    /\ ClaimedComposite(d, intent, sqlsim) # Undef
    /\ NumGt(ClaimedComposite(d, intent, sqlsim), Num(600))

(***************************************************************************)
(* C1.  For every raw record whose generated_sql is absent, empty or only  *)
(* white space, the record installed by handleDataLoad has syntax_score 0  *)
(* and all four scorer sub-scores 0, whatever the raw record carried.      *)
(***************************************************************************)
C1_BlankSqlZeroesScores ==
    Loaded =>
        \A i \in Rows :
            RawSqlBlank(source[i].f) =>
                \A f \in ZeroedFields : data[i][f] = Num(0)

\* a blank-SQL record that carried non-zero values for all five fields
C1_Witness ==
    /\ Loaded
    /\ \E i \in Rows :
          /\ RawSqlBlank(source[i].f)
          /\ source[i].f["generated_sql"] # Undef
          /\ \A f \in ZeroedFields : NumGt(ToNumber(source[i].f[f]), Num(0))
          /\ \A f \in ZeroedFields : data[i][f] = Num(0)

(***************************************************************************)
(* C2.  A record of the loaded collection whose precision, recall and      *)
(* f1_score are all exactly 0 is not counted as a pass by the summary pass *)
(* rate, by the status banner's pass rate, or as actual Pass in the        *)
(* confusion matrix, whatever its semantic score.                          *)
(***************************************************************************)
C2_AllZeroNeverPasses ==
    LET guarded == {i \in Rows : MetricsAllZero(data[i])}
        others == Count(Rows \ guarded)
    IN  Len(data) > 0 =>
          /\ guarded \cap Positions(Filter(data, SummaryPasses)) = {}
          /\ guarded \cap Positions(Filter(data, BannerPasses)) = {}
          /\ NumGe(Num(100 * others),
                   NumScale(calculateSummary(data).passRate, Len(data), 1))
          /\ NumGe(Num(100 * others), NumScale(bannerPassRate(data), Len(data), 1))
          /\ confusionMatrixData.matrix[1][1] + confusionMatrixData.matrix[1][2] <= others
          /\ \A i \in guarded :
                MatrixStep(<<<<0, 0>>, <<0, 0>>>>, data[i])[1] = <<0, 0>>

\* an all-zero record whose composite semantic score is above the threshold
C2_Witness ==
    /\ Loaded
    /\ \E i \in Rows :
          /\ MetricsAllZero(data[i])
          /\ NumGt(CompositeOrZero(data[i]), Num(PassThreshold))

(***************************************************************************)
(* C3.  For every record, the composite semantic score used for            *)
(* aggregation (summary average and pass rate, histogram, confusion        *)
(* matrix, CSV export) is the maximum of 0.5 * intent + 0.5 * sqlSim over  *)
(* the scorers that have both sub-scores: the single defined composite     *)
(* when only one scorer is complete, and 0 when neither is.                *)
(***************************************************************************)
C3_AggregateScoreIsMaxOfComplete ==
    \A i \in Rows :
        /\ semanticScores(data)[i] = ClaimedSemanticScore(data[i])
        /\ prepareExportData(data)[i]["semantic_score"] = ClaimedSemanticScore(data[i])
        /\ SummaryPasses(data[i]) =
              (notAllZero(data[i]) /\ NumGt(ClaimedSemanticScore(data[i]), Num(700)))
        /\ AddSemantic(Num(0), data[i]) = ClaimedSemanticScore(data[i])

(***************************************************************************)
(* C4.  Every place that classifies a record as pass or fail gives the     *)
(* same verdict: the records the summary cards count as passing are the    *)
(* ones the summary report counts, and the records listed under FAILED     *)
(* TESTS and those written by Export Failures are exactly the records not  *)
(* passing under that rule.                                                *)
(***************************************************************************)
C4_OnePassRuleEverywhere ==
    LET passing == Positions(Filter(data, SummaryPasses))
    IN  Len(data) > 0 =>
          /\ Positions(Filter(data, ReportPasses)) = passing
          /\ Positions(generateSummaryReport(data).failedTests) = Rows \ passing
          /\ Positions(exportFailures(data)) = Rows \ passing

(***************************************************************************)
(* C5.  For every non-empty collection, the summary's passRate is          *)
(* 100 * (number of records with overallPass true) / (number of records).  *)
(***************************************************************************)
C5_PassRateIsShareOfOverallPass ==
    Len(data) > 0 =>
        calculateSummary(data).passRate =
            Frac(100 * Count({i \in Rows : ClaimedOverallPass(data[i])}), Len(data))

(***************************************************************************)
(* C6.  Each record given to generateSampleConfusionMatrix increments      *)
(* exactly one of the four cells, so the cells sum to the number of        *)
(* records.                                                                *)
(***************************************************************************)
CellSum(m) == m[1][1] + m[1][2] + m[2][1] + m[2][2]

C6_CellsSumToRecords ==
    /\ confusionMatrixData # NoMatrix => CellSum(confusionMatrixData.matrix) = Len(data)
    /\ \A i \in Rows : CellSum(MatrixStep(<<<<0, 0>>, <<0, 0>>>>, data[i])) = 1

\* a matrix of several records, with a record whose score is NaN among them
C6_Witness ==
    /\ Loaded
    /\ Len(data) >= 2
    /\ CellSum(confusionMatrixData.matrix) = Len(data)
    /\ \E i \in Rows : IsNaN(CompositeOrZero(data[i]))
    /\ \E i \in Rows : SummaryPasses(data[i])

(***************************************************************************)
(* C7.  Cell [i][j] of the confusion matrix is the number of records whose *)
(* actual class is row i and predicted class is column j, where actual is  *)
(* overallPass and predicted is composite semantic score > 0.7; so the     *)
(* cell (actual Pass, predicted Fail) is 0 and the cell (actual Fail,      *)
(* predicted Pass) counts the records rejected only by the all-zero guard. *)
(***************************************************************************)
ClaimedClass(pass) == IF pass THEN 1 ELSE 2

C7_CellsCountActualByPredicted ==
    confusionMatrixData # NoMatrix =>
        /\ \A a \in 1..2 : \A p \in 1..2 :
              confusionMatrixData.matrix[a][p] =
                 Count({i \in Rows :
                          /\ ClaimedClass(ClaimedOverallPass(data[i])) = a
                          /\ ClaimedClass(NumGt(ClaimedSemanticScore(data[i]), Num(700))) = p})
        /\ confusionMatrixData.matrix[1][2] = 0
        /\ confusionMatrixData.matrix[2][1] =
              Count({i \in Rows : /\ MetricsAllZero(data[i])
                                  /\ NumGt(ClaimedSemanticScore(data[i]), Num(700))})

(***************************************************************************)
(* C8.  For the empty collection the summary has totalTests 0, passRate 0, *)
(* both averages 0, both per-scorer pass rates 0 and no top unknown        *)
(* tokens, and nothing is divided by the collection size.                  *)
(***************************************************************************)
C8_EmptySummaryIsZero ==
    Len(data) = 0 =>
        LET summary == calculateSummary(data)
        IN  /\ summary.totalTests = 0
            /\ summary.passRate = Num(0)
            /\ summary.averageSemanticScore = Num(0)
            /\ summary.averageSyntaxScore = Num(0)
            /\ summary.codebertPassRate = Num(0)
            /\ summary.flane5PassRate = Num(0)
            /\ summary.topUnknownTokens = <<>>

\* the collection is empty again after a clear
C8_Witness == Len(data) = 0 /\ toast = "Dashboard cleared"

(***************************************************************************)
(* C9.  Score bucketing is a total partition: every score is in exactly    *)
(* one of Excellent (>= 0.9), Good (>= 0.7, < 0.9), Fair (>= 0.5, < 0.7),  *)
(* Poor (< 0.5); the histogram's four filters agree with the label, so the *)
(* four bucket counts sum to the number of records.                        *)
(***************************************************************************)
BucketsOf(s) ==
    {b \in {"Excellent", "Good", "Fair", "Poor"} :
        \/ b = "Excellent" /\ IsExcellent(s)
        \/ b = "Good" /\ IsGood(s)
        \/ b = "Fair" /\ IsFair(s)
        \/ b = "Poor" /\ IsPoor(s)}

C9_BucketsPartitionScores ==
    LET dist == scoreDistribution(data)
    IN  /\ \A i \in Rows : BucketsOf(semanticScores(data)[i]) = {scoreLabel(semanticScores(data)[i])}
        /\ dist.excellent + dist.good + dist.fair + dist.poor = Len(data)

(***************************************************************************)
(* C10.  Wherever a per-scorer PASS/FAIL verdict is shown for a record     *)
(* (the modal's CodeBERT and FLANE5 cards, the table's CodeBERT Match and  *)
(* FLANE5 Match cells), it is PASS iff the scorer's intent and sqlSim are  *)
(* both present and 0.5 * intent + 0.5 * sqlSim > 0.6.                     *)
(***************************************************************************)
C10_ScorerVerdictEverywhere ==
    \A i \in Rows :
        LET cb == ClaimedScorerVerdict(data[i], "codebert_intent_score", "codebert_sqlsim_score")
            fl == ClaimedScorerVerdict(data[i], "flane5_intent_score", "flane5_sqlsim_score")
        IN  /\ codebertPass(data[i]) = cb
            /\ flane5Pass(data[i]) = fl
            /\ (tableCodebertMatchCell(data[i]) = "PASS") = cb
            /\ (tableFlane5MatchCell(data[i]) = "PASS") = fl


(***************************************************************************)
(* C11.  The confidence score shown in the detail view of a record equals  *)
(* 0.25 * bestIntent + 0.25 * bestSqlSim + 0.20 * vocabScore +             *)
(* 0.15 * syntaxScore + 0.15 * f1Score, where bestIntent and bestSqlSim    *)
(* are the maximum of the scorers' sub-scores that are present (0 if       *)
(* neither is), vocabScore is max(0, 1 - vocab_unknown_ratio) whenever the *)
(* ratio is present and 0 only when it is absent, and f1Score is 0 when    *)
(* absent.                                                                 *)
(***************************************************************************)
ClaimedBest(a, b) ==
    IF a # Undef /\ b # Undef THEN MathMax(a, b)
    ELSE IF a # Undef THEN a
    ELSE IF b # Undef THEN b
    ELSE Num(0)

ClaimedVocabScore(d) ==
    IF d["vocab_unknown_ratio"] = Undef THEN Num(0)
    ELSE MathMax(Num(0), NumSub(Num(Scale), d["vocab_unknown_ratio"]))

ClaimedConfidence(d) ==
    LET bestIntent == ClaimedBest(d["codebert_intent_score"], d["flane5_intent_score"])
        bestSqlSim == ClaimedBest(d["codebert_sqlsim_score"], d["flane5_sqlsim_score"])
        f1Score == IF d["f1_score"] = Undef THEN Num(0) ELSE d["f1_score"]
        weighted == NumAdd(NumAdd(NumAdd(NumAdd(NumScale(bestIntent, 25, 1),
                                                NumScale(bestSqlSim, 25, 1)),
                                         NumScale(ClaimedVocabScore(d), 20, 1)),
                                  NumScale(d["syntax_score"], 15, 1)),
                           NumScale(f1Score, 15, 1))
    IN  NumScale(weighted, 1, 100)

C11_ConfidenceIsWeightedSum ==
    (isModalOpen /\ selectedTestCase # NoTestCase) =>
        confidence(selectedTestCase) = ClaimedConfidence(selectedTestCase)

(***************************************************************************)
(* C12.  topUnknownTokens lists the (at most 5) tokens with the highest    *)
(* occurrence counts over the concatenation of all records'                *)
(* unknown_tokens, in descending order of count, tokens of equal count in  *)
(* the order of their first occurrence in the concatenation (tokens that   *)
(* look like integers included); no token appears twice.                   *)
(***************************************************************************)
RECURSIVE Concatenation(_)
Concatenation(rows) ==
    IF rows = <<>> THEN <<>>
    ELSE Head(rows)["unknown_tokens"].v \o Concatenation(Tail(rows))

FirstOccurrence(tokens, tok) ==
    CHOOSE i \in 1..Len(tokens) :
        tokens[i] = tok /\ \A j \in 1..(i - 1) : tokens[j] # tok

\* tok ranks before other: more occurrences, or as many and an earlier first one
RanksBefore(tokens, tok, other) ==
    \/ CountOf(tokens, tok) > CountOf(tokens, other)
    \/ /\ CountOf(tokens, tok) = CountOf(tokens, other)
       /\ FirstOccurrence(tokens, tok) < FirstOccurrence(tokens, other)

C12_TopTokensByCountThenFirstSeen ==
    Loaded =>
        LET tokens == Concatenation(data)
            distinct == {tokens[i] : i \in 1..Len(tokens)}
            top == calculateSummary(data).topUnknownTokens
            listed == {top[p] : p \in 1..Len(top)}
        IN  /\ Len(top) = (IF Cardinality(distinct) < 5 THEN Cardinality(distinct) ELSE 5)
            /\ listed \subseteq distinct
            /\ \A p, q \in 1..Len(top) : p < q => RanksBefore(tokens, top[p], top[q])
            /\ \A tok \in distinct \ listed :
                  \A p \in 1..Len(top) : RanksBefore(tokens, top[p], tok)

(***************************************************************************)
(* C13.  For a non-empty collection, averageSemanticScore is the sum of    *)
(* the records' composite semantic scores (0 for a record with no defined  *)
(* composite) divided by the number of records, averageSyntaxScore is the  *)
(* sum of syntax_score divided by the number of records, and with all      *)
(* sub-scores and syntax scores in [0, 1] both averages lie in [0, 1].     *)
(***************************************************************************)
RECURSIVE SumOver(_, _)
SumOver(rows, field) ==
    IF rows = <<>> THEN Num(0)
    ELSE NumAdd(Head(rows)[field], SumOver(Tail(rows), field))

RECURSIVE SumOfClaimedScores(_)
SumOfClaimedScores(rows) ==
    IF rows = <<>> THEN Num(0)
    ELSE NumAdd(ClaimedSemanticScore(Head(rows)), SumOfClaimedScores(Tail(rows)))

InUnitInterval(x) == NumGe(x, Num(0)) /\ NumGe(Num(Scale), x)

ScoresInUnitInterval(rows) ==
    \A i \in 1..Len(rows) :
        \A f \in ZeroedFields : rows[i][f] # Undef => InUnitInterval(rows[i][f])

SyntaxAverageAsClaimed ==
    Loaded =>
        calculateSummary(data).averageSyntaxScore
            = NumDiv(SumOver(data, "syntax_score"), Len(data))

AveragesInRangeAsClaimed ==
    (Loaded /\ ScoresInUnitInterval(data)) =>
        /\ InUnitInterval(calculateSummary(data).averageSemanticScore)
        /\ InUnitInterval(calculateSummary(data).averageSyntaxScore)

C13_AveragesAreMeans ==
    /\ Loaded =>
          calculateSummary(data).averageSemanticScore
              = NumDiv(SumOfClaimedScores(data), Len(data))
    /\ SyntaxAverageAsClaimed
    /\ AveragesInRangeAsClaimed

(***************************************************************************)
(* C14.  For every optional metric field (the four scorer sub-scores when  *)
(* generated_sql is not blank included), handleDataLoad stores undefined   *)
(* only when the raw value is absent, blank or unparseable; a raw zero     *)
(* (the number 0 or the string "0") is stored as the number 0.             *)
(***************************************************************************)
RawAbsentBlankOrUnparseable(raw) ==
    \/ raw \in {Undef, JSNull}
    \/ raw.t = "string" /\ (Trim(raw.v) = <<>> \/ IsNaN(StringToNumber(raw.v)))
    \/ raw.t = "number" /\ IsNaN(raw)

RawIsZero(raw) ==
    \/ raw = Num(0)
    \/ raw.t = "string" /\ Trim(raw.v) # <<>> /\ StringToNumber(raw.v) = Num(0)

MetricFieldsOf(item) ==
    OptionalMetricFields \cup (IF RawSqlBlank(item) THEN {} ELSE SubScoreFields)

C14_ZeroIsNotAbsent ==
    Loaded =>
        \A i \in Rows :
            \A f \in MetricFieldsOf(source[i].f) :
                LET raw == source[i].f[f]
                IN  /\ data[i][f] = Undef => RawAbsentBlankOrUnparseable(raw)
                    /\ RawIsZero(raw) => data[i][f] = Num(0)

(***************************************************************************)
(* C15.  The normalised unknown_tokens of a raw record is the raw value    *)
(* itself when it is an array; when it is a string, the list of its        *)
(* ';'-separated parts, each trimmed, the empty parts removed and the      *)
(* order kept; and the empty list for any other raw value.                 *)
(***************************************************************************)
\* the part of s strictly between positions lo and hi, without the white
\* space at its two ends
PartBetween(s, lo, hi) ==
    LET inked == {i \in (lo + 1)..(hi - 1) : ~IsWhite(s[i])}
        first == CHOOSE i \in inked : \A j \in inked : i <= j
        last == CHOOSE i \in inked : \A j \in inked : j <= i
    IN  IF inked = {} THEN <<>> ELSE SubSeq(s, first, last)

\* the parts of s between consecutive separators, in order, the empty ones left out
ClaimedParts(s) ==
    LET cuts == {0, Len(s) + 1} \cup {i \in 1..Len(s) : s[i] = ";"}
        NextCut(lo) == CHOOSE hi \in cuts : hi > lo /\ \A c \in cuts : c > lo => hi <= c
        from[lo \in 0..Len(s) + 1] ==
            IF lo = Len(s) + 1 THEN <<>>
            ELSE LET part == PartBetween(s, lo, NextCut(lo))
                 IN  (IF part = <<>> THEN <<>> ELSE <<part>>) \o from[NextCut(lo)]
    IN  from[0]

ClaimedTokens(raw) ==
    IF raw.t = "array" THEN raw
    ELSE IF raw.t = "string" THEN Arr(ClaimedParts(raw.v))
    ELSE Arr(<<>>)

C15_UnknownTokensNormalised ==
    Loaded =>
        \A i \in Rows :
            data[i]["unknown_tokens"] = ClaimedTokens(source[i].f["unknown_tokens"])

\* the string "x; y ;z" loaded as [x, y, z]
C15_Witness ==
    /\ Loaded
    /\ \E i \in Rows :
          /\ source[i].f["unknown_tokens"] = Str(<<"x", ";", " ", "y", " ", ";", "z">>)
          /\ data[i]["unknown_tokens"] = Arr(<<<<"x">>, <<"y">>, <<"z">>>>)

(***************************************************************************)
(* C16.  For every boolean field of a raw record (the seven has_* flags,   *)
(* codebert_match, flane5_match, exact_match), normalisation yields true   *)
(* exactly when the raw value is the boolean true, a string equal to       *)
(* "true" ignoring case, or a non-zero number; every other present value   *)
(* yields false, and an absent optional flag yields undefined.  (A raw     *)
(* null is left out: the claim does not say whether it is present.)        *)
(***************************************************************************)
ClaimedTrue(raw) ==
    \/ raw = Bool(TRUE)
    \/ raw.t = "string" /\ toLowerCase(raw.v) = <<"t", "r", "u", "e">>
    \/ raw.t = "number" /\ ~IsNaN(raw) /\ raw.v[1] # 0

OptionalFlagFields == FlagFields \cup {"exact_match"}

C16_BooleanCoercion ==
    Loaded =>
        \A i \in Rows :
            \A f \in BooleanFields :
                LET raw == source[i].f[f]
                IN  IF raw = Undef
                    THEN f \in OptionalFlagFields => data[i][f] = Undef
                    ELSE raw # JSNull => data[i][f] = Bool(ClaimedTrue(raw))

(***************************************************************************)
(* C17.  Normalisation signals an error for every raw record in which id,  *)
(* user_prompt, expected_sql or true_label is absent: such a record is     *)
(* never installed in the collection as an ordinary row (and is never      *)
(* silently dropped); and it never signals an error for a record that only *)
(* lacks optional fields.                                                  *)
(***************************************************************************)
LacksRequiredField(item) ==
    item.kind = "object" /\ \E f \in RequiredFields : item.f[f] = Undef

OnlyCompleteRecords(newData) ==
    \A i \in 1..Len(newData) :
        newData[i].kind = "object" /\ ~LacksRequiredField(newData[i])

C17_RequiredFieldsEnforced ==
    /\ Loaded => \A i \in Rows : ~LacksRequiredField(source[i])
    /\ \A jsonData \in NormJsonDocs :
          OnlyCompleteRecords(testCases(jsonData)) => ~Throws(testCases(jsonData))

(***************************************************************************)
(* C18.  A decoded input that is not a sequence of objects (a JSON array   *)
(* holding a number, a string or null) is rejected by handleDataLoad: no   *)
(* collection is installed from it, the collection and the confusion       *)
(* matrix held before are unchanged, an error is reported, and loading     *)
(* ends as false.                                                          *)
(***************************************************************************)
C18_NonObjectInputRejected ==
    /\ loading = FALSE
    /\ Loaded => \A i \in Rows : source[i].kind = "object"

(***************************************************************************)
(* C19.  Round trip: serialising the collection held with the JSON export, *)
(* parsing that text and passing the result through handleDataLoad again   *)
(* yields a collection of the same length whose records are field for      *)
(* field equal to the originals.                                           *)
(***************************************************************************)
C19_JsonRoundTripIsIdentity ==
    Loaded =>
        LET again == testCases(JSONParse(downloadJSON(data)))
        IN  /\ ~Throws(again)
            /\ Len(cleanedData(again)) = Len(data)
            /\ \A i \in Rows : \A f \in Fields : cleanedData(again)[i][f] = data[i][f]

(***************************************************************************)
(* C20.  In the CSV export and in the JSON export of a collection, every   *)
(* exported row's semantic_score is the composite semantic score computed  *)
(* for that row (not the stored legacy semantic_score), and every other    *)
(* field of the row is exported unchanged.                                 *)
(***************************************************************************)
OtherFields == Fields \ {"semantic_score"}

CsvExportAsClaimed ==
    Loaded =>
        \A i \in Rows :
            /\ downloadCSV(data)[i]["semantic_score"] = ClaimedSemanticScore(data[i])
            /\ \A f \in OtherFields : downloadCSV(data)[i][f] = data[i][f]

\* a value that JSON text can hold (NaN cannot)
Writable(v) == v # Undef /\ ~(IsNumber(v) /\ IsNaN(v))

JsonExportAsClaimed ==
    Loaded =>
        \A i \in Rows :
            /\ Writable(ClaimedSemanticScore(data[i])) =>
                  <<"semantic_score", ClaimedSemanticScore(data[i])>> \in downloadJSON(data)[i]
            /\ \A f \in OtherFields :
                  Writable(data[i][f]) => <<f, data[i][f]>> \in downloadJSON(data)[i]

C20_ExportsCarryCompositeScore == CsvExportAsClaimed /\ JsonExportAsClaimed

(***************************************************************************)
(* C21. After any sequence of uploads and clears the collection is exactly *)
(* the normalized records of the most recent successful upload, never a    *)
(* merge with what was held before, and it is empty when a clear came      *)
(* after that upload (or nothing was ever uploaded).                       *)
(***************************************************************************)
C21_CollectionIsLastUpload ==
    data = IF source = <<>> THEN <<>> ELSE cleanedData(source)

\* a second collection was uploaded over a first one: a record of the first
\* is still selected, and the collection holds the second upload only
C21_Witness ==
    /\ Len(data) = MaxRows
    /\ data = cleanedData(source)
    /\ selectedTestCase # NoTestCase
    /\ \A i \in 1..Len(data) : data[i] # selectedTestCase

(***************************************************************************)
(* C22. In every reachable state the stored confusion matrix is either     *)
(* null with an empty collection, or the matrix computed from the          *)
(* collection now held; it is never the matrix of an earlier collection.   *)
(***************************************************************************)
C22_MatrixFollowsCollection ==
    \/ confusionMatrixData = NoMatrix /\ data = <<>>
    \/ confusionMatrixData = generateSampleConfusionMatrix(data)

\* a collection was replaced by one whose matrix differs from that of the
\* record still selected from the collection before
C22_Witness ==
    /\ Len(data) > 0
    /\ selectedTestCase # NoTestCase
    /\ \A i \in 1..Len(data) : data[i] # selectedTestCase
    /\ confusionMatrixData = generateSampleConfusionMatrix(data)
    /\ generateSampleConfusionMatrix(<<selectedTestCase>>).matrix
         # generateSampleConfusionMatrix(<<data[1]>>).matrix

(***************************************************************************)
(* C28. In every reachable state, an open modal has a selected record:     *)
(* isModalOpen = TRUE implies selectedTestCase is not null.                *)
(***************************************************************************)
C28_OpenModalHasSelection == isModalOpen => selectedTestCase # NoTestCase

(***************************************************************************)
(* C29. A selected record is a record of the collection now held: neither  *)
(* a replacing upload nor a clear leaves a record of the discarded         *)
(* collection selected.                                                    *)
(***************************************************************************)
C29_SelectionIsInCollection ==
    selectedTestCase # NoTestCase => \E i \in 1..Len(data) : data[i] = selectedTestCase

(***************************************************************************)
(* C30. A record that is an overall pass by the summary (the all-zero      *)
(* guard holds and the composite is above 0.7) has at least one per-scorer *)
(* verdict PASS in the detail view (that scorer's composite is present and *)
(* above 0.6).                                                             *)
(***************************************************************************)
C30_OverallPassHasScorerPass ==
    \A i \in Rows :
        (SummaryPasses(data[i]) \/ ClaimedOverallPass(data[i]))
            => (codebertPass(data[i]) \/ flane5Pass(data[i]))

\* a record counted as a pass by the summary, with both scorers complete, one
\* of them PASS and the other one not
C30_Witness ==
    \E i \in Rows :
        /\ SummaryPasses(data[i])
        /\ codebertPass(data[i]) # flane5Pass(data[i])

(***************************************************************************)
(* C26. End to end, the all-zero guard survives normalization: a raw       *)
(* record with a non-blank generated_sql, precision, recall and f1_score   *)
(* all the number 0 and a composite semantic score above 0.7 is counted in *)
(* the confusion-matrix cell (actual Fail, predicted Pass) and is not      *)
(* counted in the summary's pass rate.                                     *)
(***************************************************************************)
\* the raw record the claim speaks of: the four sub-scores are numbers
RawGuardedHighScorer(item) ==
    /\ ~RawSqlBlank(item)
    /\ MetricsAllZero(item)
    /\ \A f \in SubScoreFields : IsNumber(item[f]) /\ ~IsNaN(item[f])
    /\ NumGt(ClaimedSemanticScore(item), Num(700))

C26_GuardSurvivesNormalization ==
    Loaded =>
        \A i \in Rows :
            RawGuardedHighScorer(source[i].f) =>
                /\ generateSampleConfusionMatrix(<<data[i]>>).matrix[2][1] = 1
                /\ i \notin Positions(Filter(data, SummaryPasses))
                /\ Len(data) = 1 => calculateSummary(data).passRate = Num(0)

(***************************************************************************)
(* C23. Once a collection is installed no operation changes it in place:   *)
(* searching, filtering and the sort that follows them, expanding a row,   *)
(* opening and closing the modal and exporting leave the order of the      *)
(* records and every field of every record as normalization built them    *)
(* from the upload, in every state these operations lead to.               *)
(***************************************************************************)
C23_CollectionNeverChangedInPlace ==
    Len(data) > 0 =>
        /\ data = cleanedData(source)
        /\ \A i \in 1..Len(data) : \A f \in Fields : data[i][f] = CleanItem(source[i].f)[f]

\* a collection whose ids are out of order, shown sorted under a search that
\* hides nothing, with a row expanded, a record open and the export written
C23_Witness ==
    /\ Len(data) = 2
    /\ localeCompare(data[1]["id"].v, data[2]["id"].v) > 0
    /\ shownRows = <<2, 1>>
    /\ filters.passFailFilter = "pass"
    /\ expandedRows # {}
    /\ isModalOpen
    /\ download = prepareExportData(data)
    /\ download # data

(***************************************************************************)
(* C24. Records sharing an id are distinct rows: toggling the expansion of *)
(* one row of the table changes that row's expanded state and leaves every *)
(* other row's state as it was, a row with an equal id included.           *)
(***************************************************************************)
C24_ToggleChangesOneRow ==
    [][\A i \in 1..MaxRows :
          expandClick(i) =>
              /\ isExpanded(data[i], expandedRows') # isExpanded(data[i], expandedRows)
              /\ \A j \in (1..Len(data)) \ {i} :
                    isExpanded(data[j], expandedRows') = isExpanded(data[j], expandedRows)]_vars

(***************************************************************************)
(* C25. For any collection and search term, the rows shown under 'pass'    *)
(* are exactly the rows of the 'all' view that pass, the rows shown under  *)
(* 'fail' exactly those that fail: the two views are disjoint and together *)
(* hold the rows of the 'all' view.                                        *)
(***************************************************************************)
\* the rows shown when the pass/fail select is set to value
ViewUnder(value) ==
    Positions(filteredAndSortedData(data, [filters EXCEPT !.passFailFilter = value]).filtered)

C25_PassAndFailViewsPartitionAll ==
    Len(data) > 0 =>
        /\ ViewUnder("pass") = {i \in ViewUnder("all") : ClaimedOverallPass(data[i])}
        /\ ViewUnder("fail") = {i \in ViewUnder("all") : ~ClaimedOverallPass(data[i])}
        /\ ViewUnder("pass") \cap ViewUnder("fail") = {}
        /\ ViewUnder("pass") \cup ViewUnder("fail") = ViewUnder("all")

(***************************************************************************)
(* C27. For every file handed to processFile (JSON that parses, JSON that  *)
(* does not, CSV with or without parse errors, any other extension)        *)
(* exactly one of onDataLoad and onError is invoked, exactly once; and the *)
(* uploading flag, set at the start, is eventually false again.            *)
(***************************************************************************)
\* no callback before the wait ends, exactly one call after it
CallbacksOnce ==
    /\ uploading => onDataLoadCalls = 0 /\ onErrorCalls = 0
    /\ (file # NoFile /\ ~uploading) => onDataLoadCalls + onErrorCalls = 1

C27_OneCallbackAndFlagCleared ==
    /\ [](CallbacksOnce)
    /\ [](uploading = (file # NoFile /\ onDataLoadCalls + onErrorCalls = 0))
    /\ uploading ~> ~uploading

\* a CSV file with parse errors has been processed: onError once, no load
C27_Witness ==
    /\ ~uploading
    /\ file.ext = "csv"
    /\ file.errors > 0
    /\ onErrorCalls = 1
    /\ onDataLoadCalls = 0
    /\ toast = "Upload Error"

=============================================================================
